---- MODULE Spec2Model ----
(***************************************************************************)
(* A model of the sega_film crate: the FILM container header parser        *)
(* (src/container/mod.rs) and the Cinepak frame / strip header parser      *)
(* (src/codec/cinepak/mod.rs).                                             *)
(*                                                                         *)
(* A byte slice is a sequence of numbers in 0..255.  Rust indexes from 0;  *)
(* At and Slice translate.  Every index and every slice of the code is     *)
(* bounds-checked by Rust and panics when out of range, and every          *)
(* String::from_utf8(..).unwrap() panics on bytes that are not UTF-8: the  *)
(* parsers below return Panic in exactly those cases.                      *)
(***************************************************************************)
EXTENDS Integers, Sequences, FiniteSets, TLC

VARIABLES
    op,              \* the entry point the caller invoked
    data,            \* the byte slice handed to it
    pc,              \* "call" while the entry point runs, "done" after
    i,               \* Frame::parse: the loop index
    strips,          \* Frame::parse: the strips vector
    prev_y2,         \* Frame::parse: the carry; Strip::parse: its argument
    current_offset,  \* Frame::parse: the byte cursor
    result           \* what the entry point returned (or that it panicked)

vars == <<op, data, pc, i, strips, prev_y2, current_offset, result>>

---------------------------------------------------------------------------
(* Bounds of the model. *)

MaxStrips == 2

MaxEntries == 3

MaxRecs == 2

---------------------------------------------------------------------------
(* Slices and outcomes. *)

At(d, k) == d[k + 1]

Slice(d, a, b) == SubSeq(d, a + 1, b)

SliceOk(d, a, b) == a <= b /\ b <= Len(d)

Panic == [kind |-> "panic"]

Ok(v) == [kind |-> "ok", val |-> v]

Err(msg) == [kind |-> "err", msg |-> msg]

NoResult == [kind |-> "none"]

---------------------------------------------------------------------------
(* utils.rs.  A u32 is kept as its two 16-bit halves, the value being      *)
(* hi * 2^16 + lo: the model checker's integers are 32-bit signed and      *)
(* cannot hold a u32 with bit 31 set.  The shifts and sums of the code     *)
(* cannot overflow, every operand being a byte.                            *)

uint16_from_bytes(b) == (b[1] * 256) + b[2]

uint32_from_bytes(b) ==
    [hi |-> (b[1] * 256) + b[2], lo |-> (b[3] * 256) + b[4]]

\* `x as usize` of a u32 (the inputs of the model stay below 2^31).
AsUsize(u) == (u.hi * 65536) + u.lo

---------------------------------------------------------------------------
(* codec/cinepak/mod.rs *)

STRIP_START_OFFSET == 12

\* The strip id of a keyframe strip (Frame::parse, line 41).
KEYFRAME_STRIP_ID == 16

\* Strip::parse, line 70: y2 of a strip placed relative to the previous one.
RelativeY2NoCarry(y1, delta) == delta

RelativeY2(y1, delta) == y1 + delta

\* Strip::parse.  data[4] is read first, then data[8] and data[9] (and
\* data[5] in the absolute branch), then data[0..12] is sliced: each panics
\* on a slice that is too short, so the parse panics iff Len(d) < 12.
StripParse(d, p) ==
    IF ~(4 < Len(d)) THEN Panic
    ELSE IF At(d, 4) = 0 /\ ~(9 < Len(d)) THEN Panic
    ELSE IF At(d, 4) # 0 /\ ~(5 < Len(d) /\ 9 < Len(d)) THEN Panic
    ELSE IF ~SliceOk(d, 0, 12) \/ ~SliceOk(d, 12, Len(d)) THEN Panic
    ELSE
        LET y1 == IF At(d, 4) = 0
                  THEN p
                  ELSE uint16_from_bytes(<<At(d, 4), At(d, 5)>>)
            y2 == IF At(d, 4) = 0
                  THEN RelativeY2(y1, uint16_from_bytes(<<At(d, 8), At(d, 9)>>))
                  ELSE uint16_from_bytes(<<At(d, 8), At(d, 9)>>)
        IN  Ok([id     |-> uint16_from_bytes(<<At(d, 0), At(d, 1)>>),
                x1     |-> uint16_from_bytes(<<At(d, 6), At(d, 7)>>),
                x2     |-> uint16_from_bytes(<<At(d, 10), At(d, 11)>>),
                y1     |-> y1,
                y2     |-> y2,
                header |-> Slice(d, 0, 12),
                data   |-> Slice(d, 12, Len(d))])

\* Strip::parse_strip_size, on the four bytes it is given.
parse_strip_size(d) == uint16_from_bytes(<<At(d, 2), At(d, 3)>>)

\* Frame::parse, line 20.
FrameStripCount(d) == uint16_from_bytes(<<At(d, 8), At(d, 9)>>)

\* Frame::parse, line 36: the cursor after a strip.
AdvanceOffsetByHeader(offset, strip_size) == offset + 12

AdvanceOffset(offset, strip_size) == offset + strip_size

\* Frame::parse, line 41.
FrameKeyframeAll(ss) == \A k \in 1..Len(ss) : ss[k].id = KEYFRAME_STRIP_ID

FrameKeyframe(ss) == \E k \in 1..Len(ss) : ss[k].id = KEYFRAME_STRIP_ID

\* Frame::parse, one iteration of the loop over 0..strip_count (lines 28-37).
FrameParseStrip ==
    /\ op = "frame" /\ pc = "call"
    /\ i < FrameStripCount(data)
    /\ LET start_index == STRIP_START_OFFSET + current_offset
       IN  IF ~SliceOk(data, start_index, start_index + 4)
           THEN /\ pc' = "done" /\ result' = Panic
                /\ UNCHANGED <<i, strips, prev_y2, current_offset>>
           ELSE
             LET strip_size ==
                     parse_strip_size(Slice(data, start_index, start_index + 4))
             IN  IF ~SliceOk(data, start_index, start_index + strip_size)
                 THEN /\ pc' = "done" /\ result' = Panic
                      /\ UNCHANGED <<i, strips, prev_y2, current_offset>>
                 ELSE
                   LET s == StripParse(
                              Slice(data, start_index, start_index + strip_size),
                              prev_y2)
                   IN  IF s.kind = "panic"
                       THEN /\ pc' = "done" /\ result' = Panic
                            /\ UNCHANGED <<i, strips, prev_y2, current_offset>>
                       ELSE /\ strips' = Append(strips, s.val)
                            /\ prev_y2' = s.val.y2
                            /\ current_offset' =
                                   AdvanceOffset(current_offset, strip_size)
                            /\ i' = i + 1
                            /\ UNCHANGED <<pc, result>>
    /\ UNCHANGED <<op, data>>

\* Frame::parse after the loop (lines 39-49).
FrameParseFinish ==
    /\ op = "frame" /\ pc = "call"
    /\ i = FrameStripCount(data)
    /\ result' = Ok([width       |-> uint16_from_bytes(<<At(data, 6), At(data, 7)>>),
                     height      |-> uint16_from_bytes(<<At(data, 4), At(data, 5)>>),
                     keyframe    |-> FrameKeyframe(strips),
                     strip_count |-> FrameStripCount(data),
                     strips      |-> strips])
    /\ pc' = "done"
    /\ UNCHANGED <<op, data, i, strips, prev_y2, current_offset>>

\* A direct call of Strip::parse(data, prev_y2).
StripParseCall ==
    /\ op = "strip" /\ pc = "call"
    /\ result' = StripParse(data, prev_y2)
    /\ pc' = "done"
    /\ UNCHANGED <<op, data, i, strips, prev_y2, current_offset>>

---------------------------------------------------------------------------
(* container/mod.rs *)

\* A UTF-8 continuation byte.
Cont(b) == 128 <= b /\ b <= 191

\* String::from_utf8(bytes) is Ok: the bytes are well-formed UTF-8 (no
\* overlong form, no surrogate, nothing above U+10FFFF).  The code unwraps
\* the result, so it panics when this is false.
RECURSIVE Utf8Valid(_)
Utf8Valid(s) ==
    IF Len(s) = 0 THEN TRUE
    ELSE
      LET b == s[1]
          Rest(n) == SubSeq(s, n + 1, Len(s))
      IN  IF b < 128 THEN Utf8Valid(Rest(1))
          ELSE IF 194 <= b /\ b <= 223
               THEN Len(s) >= 2 /\ Cont(s[2]) /\ Utf8Valid(Rest(2))
          ELSE IF 224 <= b /\ b <= 239
               THEN /\ Len(s) >= 3
                    /\ Cont(s[2]) /\ Cont(s[3])
                    /\ (b = 224 => s[2] >= 160)
                    /\ (b = 237 => s[2] <= 159)
                    /\ Utf8Valid(Rest(3))
          ELSE IF 240 <= b /\ b <= 244
               THEN /\ Len(s) >= 4
                    /\ Cont(s[2]) /\ Cont(s[3]) /\ Cont(s[4])
                    /\ (b = 240 => s[2] >= 144)
                    /\ (b = 244 => s[2] <= 143)
                    /\ Utf8Valid(Rest(4))
          ELSE FALSE

\* The string literals the code compares with, as their UTF-8 bytes.
FILM == <<70, 73, 76, 77>>

cvid == <<99, 118, 105, 100>>

\* AudioCodec, from the compression code data[23] (FDSC::parse, lines 150-154).
AudioCodecOfSwapped(code) ==
    IF code = 0 THEN "ADX" ELSE IF code = 2 THEN "PCM" ELSE "Unknown"

AudioCodecOf(code) ==
    IF code = 0 THEN "PCM" ELSE IF code = 2 THEN "ADX" ELSE "Unknown"

\* AudioCodec::name
AudioCodecName(c) ==
    IF c = "PCM" THEN "pcm" ELSE IF c = "ADX" THEN "adx" ELSE "unknown"

\* FDSC::parse, on the 32 bytes FILMHeader::parse slices out.
FdscParse(d) ==
    IF ~(25 < Len(d)) THEN Panic
    ELSE IF ~Utf8Valid(Slice(d, 0, 4)) THEN Panic
    ELSE IF ~Utf8Valid(Slice(d, 8, 12)) THEN Panic
    ELSE Ok([signature           |-> Slice(d, 0, 4),
             length              |-> uint32_from_bytes(Slice(d, 4, 8)),
             fourcc              |-> Slice(d, 8, 12),
             height              |-> uint32_from_bytes(Slice(d, 12, 16)),
             width               |-> uint32_from_bytes(Slice(d, 16, 20)),
             bpp                 |-> At(d, 20),
             channels            |-> At(d, 21),
             audio_resolution    |-> At(d, 22),
             audio_compression   |-> AudioCodecOf(At(d, 23)),
             audio_sampling_rate |-> uint16_from_bytes(<<At(d, 24), At(d, 25)>>)])

\* FDSC::audio_codec
audio_codec(fdsc) == AudioCodecName(fdsc.audio_compression)

\* FDSC::human_readable_fourcc
human_readable_fourcc(fdsc) ==
    IF fdsc.fourcc = cvid THEN "Cinepak" ELSE "Raw video"

\* Sample::parse, on a 16-byte record.
SampleParse(d) ==
    IF ~(15 < Len(d)) THEN Panic
    ELSE Ok([offset |-> AsUsize(uint32_from_bytes(Slice(d, 0, 4))),
             length |-> AsUsize(uint32_from_bytes(Slice(d, 4, 8))),
             info1  |-> Slice(d, 8, 12),
             info2  |-> Slice(d, 12, 16)])

\* Sample::is_audio
is_audio(s) == s.info1 = <<255, 255, 255, 255>>

\* Sample::is_video
is_video(s) == ~is_audio(s)

\* Option<bool>
None == [some |-> FALSE, val |-> FALSE]

Some(b) == [some |-> TRUE, val |-> b]

\* (byte & (1 << 31)) == 0, on the halves of the u32.
Bit31Set(u) == (u.hi \div 32768) % 2 = 1

Bit31Clear(u) == (u.hi \div 32768) % 2 = 0

\* Sample::is_keyframe
is_keyframe(s) ==
    IF ~is_video(s) THEN None
    ELSE Some(Bit31Clear(uint32_from_bytes(s.info1)))

\* STAB::parse, line 218: where record i of the loop 1..entries starts.
SampleIndexFromZero(idx) == (idx - 1) * 16

SampleIndex(idx) == idx * 16

\* STAB::parse.  The loop runs i over 1..entries (exclusive), slicing
\* data[index..index + 16]; the signature is unwrapped after the loop.
StabParse(d) ==
    IF ~(3 < Len(d)) THEN Panic
    ELSE IF ~(15 < Len(d)) THEN Panic
    ELSE
      LET entries == uint32_from_bytes(Slice(d, 12, 16))
          n == AsUsize(entries) - 1
      IN  IF \E k \in 1..n :
                 ~SliceOk(d, SampleIndex(k), SampleIndex(k) + 16)
          THEN Panic
          ELSE IF ~Utf8Valid(Slice(d, 0, 4)) THEN Panic
          ELSE Ok([signature    |-> Slice(d, 0, 4),
                   length       |-> uint32_from_bytes(Slice(d, 4, 8)),
                   framerate    |-> uint32_from_bytes(Slice(d, 8, 12)),
                   entries      |-> entries,
                   sample_table |->
                       [k \in 1..n |->
                           SampleParse(Slice(d, SampleIndex(k),
                                             SampleIndex(k) + 16)).val]])

\* FILMHeader::is_film_file
IsFilmFile(d) ==
    IF ~SliceOk(d, 0, 4) THEN Panic
    ELSE IF ~Utf8Valid(Slice(d, 0, 4)) THEN Panic
    ELSE Ok(Slice(d, 0, 4) = FILM)

\* FILMHeader::parse.  The struct's fields are evaluated in the order
\* written: version, unknown, fdsc, stab.
FilmParse(d) ==
    IF ~SliceOk(d, 0, 4) THEN Panic
    ELSE IF ~Utf8Valid(Slice(d, 0, 4)) THEN Panic
    ELSE IF Slice(d, 0, 4) # FILM THEN Err("This is not a Sega FILM file!")
    ELSE IF ~(7 < Len(d)) THEN Panic
    ELSE
      LET length == AsUsize(uint32_from_bytes(Slice(d, 4, 8)))
      IN  IF ~SliceOk(d, 8, 12) THEN Panic
          ELSE IF ~Utf8Valid(Slice(d, 8, 12)) THEN Panic
          ELSE IF ~SliceOk(d, 12, 16) THEN Panic
          ELSE IF ~SliceOk(d, 16, 48) THEN Panic
          ELSE IF FdscParse(Slice(d, 16, 48)).kind = "panic" THEN Panic
          ELSE IF ~SliceOk(d, 48, length) THEN Panic
          ELSE IF StabParse(Slice(d, 48, length)).kind = "panic" THEN Panic
          ELSE Ok([signature |-> Slice(d, 0, 4),
                   length    |-> length,
                   version   |-> Slice(d, 8, 12),
                   unknown   |-> Slice(d, 12, 16),
                   fdsc      |-> FdscParse(Slice(d, 16, 48)).val,
                   stab      |-> StabParse(Slice(d, 48, length)).val])

\* A call of FILMHeader::is_film_file(data).
IsFilmFileCall ==
    /\ op = "is_film_file" /\ pc = "call"
    /\ result' = IsFilmFile(data)
    /\ pc' = "done"
    /\ UNCHANGED <<op, data, i, strips, prev_y2, current_offset>>

\* A call of FILMHeader::parse(data).
FilmParseCall ==
    /\ op = "film" /\ pc = "call"
    /\ result' = FilmParse(data)
    /\ pc' = "done"
    /\ UNCHANGED <<op, data, i, strips, prev_y2, current_offset>>

\* A call of STAB::parse(data).
StabParseCall ==
    /\ op = "stab" /\ pc = "call"
    /\ result' = StabParse(data)
    /\ pc' = "done"
    /\ UNCHANGED <<op, data, i, strips, prev_y2, current_offset>>

\* Sample::parse(data), then is_audio, is_video and is_keyframe on the sample.
SampleCall ==
    /\ op = "sample" /\ pc = "call"
    /\ LET s == SampleParse(data)
       IN  result' = IF s.kind = "panic" THEN Panic
                     ELSE Ok([sample      |-> s.val,
                              is_audio    |-> is_audio(s.val),
                              is_video    |-> is_video(s.val),
                              is_keyframe |-> is_keyframe(s.val)])
    /\ pc' = "done"
    /\ UNCHANGED <<op, data, i, strips, prev_y2, current_offset>>

---------------------------------------------------------------------------
(* The inputs the callers supply: byte slices laid out as the formats      *)
(* describe, well-formed and malformed.                                    *)

U16Bytes(v) == <<v \div 256, v % 256>>

U32Bytes(v) ==
    <<v \div 16777216, (v \div 65536) % 256, (v \div 256) % 256, v % 256>>

RECURSIVE Concat(_)
Concat(ss) == IF Len(ss) = 0 THEN <<>> ELSE Head(ss) \o Concat(Tail(ss))

\* The sequences over K of length at most n.
SeqsUpTo(K, n) == {<<>>} \cup UNION {[1..m -> K] : m \in 1..n}

Payload(n) == [k \in 1..n |-> 170]

\* A strip: id, declared size, bytes 4..6, x1, bytes 8..10, x2, payload.
StripChunk(id, declared, yflag, delta, paylen) ==
    U16Bytes(id) \o U16Bytes(declared) \o yflag \o U16Bytes(8)
        \o delta \o U16Bytes(320) \o Payload(paylen)

YFlags == {<<0, 0>>, <<0, 10>>, <<1, 2>>}

\* <<declared size, payload bytes present>>: two consistent, one smaller
\* than the strip header, one overshooting the strip.
StripSizes == {<<12, 0>>, <<13, 1>>, <<8, 0>>, <<14, 0>>}

FrameStrips ==
    {StripChunk(id, sz[1], yf, IF yf = <<0, 0>> THEN <<0, 30>> ELSE <<0, 80>>, sz[2]) :
        id \in {16, 17}, sz \in StripSizes, yf \in YFlags}

FrameHeader(n) ==
    <<0, 0, 0, 0>> \o U16Bytes(240) \o U16Bytes(320) \o U16Bytes(n) \o <<0, 0>>

FrameInputs ==
    {FrameHeader(Len(cs)) \o Concat(cs) : cs \in SeqsUpTo(FrameStrips, MaxStrips)}

StripInputs ==
    {StripChunk(id, 12 + pl, yf, delta, pl) :
        id \in {16, 17}, yf \in YFlags \cup {<<1, 0>>},
        delta \in {<<0, 30>>, <<0, 80>>, <<1, 44>>}, pl \in {0, 1}}
    \cup {SubSeq(StripChunk(16, 12, yf, <<0, 30>>, 0), 1, 8) : yf \in YFlags}

PrevY2Values == {0, 50, 300}

SampleBytes(offset, length, tag1) ==
    U32Bytes(offset) \o U32Bytes(length) \o tag1 \o <<0, 0, 0, 1>>

Tags ==
    {<<255, 255, 255, 255>>, <<0, 0, 0, 0>>, <<128, 0, 0, 0>>,
     <<255, 255, 255, 127>>, <<127, 255, 255, 255>>, <<0, 0, 0, 128>>,
     <<255, 0, 0, 0>>}

SampleInputs ==
    {SampleBytes(o, l, t) : o \in {0, 258, 16777219}, l \in {0, 66000}, t \in Tags}

StabRecords ==
    {SampleBytes(0, 100, <<255, 255, 255, 255>>),
     SampleBytes(258, 66000, <<0, 0, 0, 0>>),
     SampleBytes(16777219, 7, <<128, 0, 0, 0>>)}

FilmRecords ==
    {SampleBytes(0, 100, <<255, 255, 255, 255>>),
     SampleBytes(258, 66000, <<0, 0, 0, 0>>)}

STABTag == <<83, 84, 65, 66>>

FDSCTag == <<70, 68, 83, 67>>

NotUtf8 == <<255, 0, 0, 0>>

StabBytes(sig, entries, recs) ==
    sig \o U32Bytes(16 + (16 * Len(recs))) \o U32Bytes(30) \o U32Bytes(entries)
        \o Concat(recs)

StabInputs ==
    {StabBytes(sig, e, recs) :
        sig \in {STABTag, NotUtf8}, e \in 0..MaxEntries,
        recs \in SeqsUpTo(StabRecords, MaxRecs)}

FdscBytes(fourcc, code) ==
    FDSCTag \o U32Bytes(32) \o fourcc \o U32Bytes(240) \o U32Bytes(320)
        \o <<24, 2, 16, code>> \o U16Bytes(22050) \o <<0, 0, 0, 0, 0, 0>>

FilmBytes(sig, length, version, fourcc, code, stab) ==
    sig \o U32Bytes(length) \o version \o <<0, 0, 0, 0>>
        \o FdscBytes(fourcc, code) \o stab

Signatures ==
    {FILM, <<70, 73, 76, 75>>, <<102, 105, 108, 109>>, <<255, 255, 255, 255>>,
     <<70, 73, 76, 200>>}

Version == <<49, 46, 48, 57>>

FilmInputs ==
    Signatures
    \cup {FilmBytes(sig, 64, Version, cvid, 0, StabBytes(STABTag, 1, <<>>)) :
            sig \in Signatures}
    \cup {FilmBytes(FILM, length, version, fourcc, code, StabBytes(STABTag, e, recs)) :
            length \in {64, 96}, version \in {Version, NotUtf8},
            fourcc \in {cvid, <<114, 97, 119, 32>>}, code \in {0, 1, 2},
            e \in 0..MaxEntries, recs \in SeqsUpTo(FilmRecords, MaxRecs)}

IsFilmFileInputs ==
    Signatures \cup {sig \o U32Bytes(64) : sig \in Signatures}
        \cup {<<70, 73, 76>>}

---------------------------------------------------------------------------

Init ==
    /\ \/ op = "frame" /\ data \in FrameInputs /\ prev_y2 = 0
       \/ op = "strip" /\ data \in StripInputs /\ prev_y2 \in PrevY2Values
       \/ op = "is_film_file" /\ data \in IsFilmFileInputs /\ prev_y2 = 0
       \/ op = "film" /\ data \in FilmInputs /\ prev_y2 = 0
       \/ op = "stab" /\ data \in StabInputs /\ prev_y2 = 0
       \/ op = "sample" /\ data \in SampleInputs /\ prev_y2 = 0
    /\ pc = "call"
    /\ i = 0
    /\ strips = <<>>
    /\ current_offset = 0
    /\ result = NoResult

Next ==
    \/ FrameParseStrip
    \/ FrameParseFinish
    \/ StripParseCall
    \/ IsFilmFileCall
    \/ FilmParseCall
    \/ StabParseCall
    \/ SampleCall

Spec == Init /\ [][Next]_vars

---------------------------------------------------------------------------
(* The fields of the formats, read off the input bytes as the format       *)
(* tables give them (big-endian, offsets from 0).                          *)

BE16(d, k) == (At(d, k) * 256) + At(d, k + 1)

BE32(d, k) ==
    (At(d, k) * 16777216) + (At(d, k + 1) * 65536) + (At(d, k + 2) * 256)
        + At(d, k + 3)

\* Where strip k starts, relative to the first strip: the sum of the
\* declared sizes (the 16-bit field at offset 2) of the strips before it.
RECURSIVE DeclaredOffset(_, _)
DeclaredOffset(d, k) ==
    IF k = 0 THEN 0
    ELSE DeclaredOffset(d, k - 1) + BE16(d, 12 + DeclaredOffset(d, k - 1) + 2)

\* The index of the first strip whose declared size is inconsistent with
\* the bytes that remain (it runs past the end, or is smaller than the
\* 12-byte strip header); -1 when there is none.
RECURSIVE FirstMalformedStrip(_, _, _)
FirstMalformedStrip(d, k, o) ==
    IF k >= BE16(d, 8) THEN -1
    ELSE IF 12 + o + 4 > Len(d) THEN k
    ELSE LET size == BE16(d, 12 + o + 2)
         IN  IF size < 12 \/ 12 + o + size > Len(d) THEN k
             ELSE FirstMalformedStrip(d, k + 1, o + size)

StripDone == op = "strip" /\ pc = "done" /\ Len(data) >= 12

\* C1: Strip::parse, absolute branch: whenever the 16-bit value at
\* bytes[4..6] is non-zero, the strip has y1 = that value and y2 = the
\* 16-bit value at bytes[8..10], whatever prev_y2 is.
C1_AbsoluteBranch ==
    (StripDone /\ BE16(data, 4) # 0) =>
        /\ result.kind = "ok"
        /\ result.val.y1 = BE16(data, 4)
        /\ result.val.y2 = BE16(data, 8)

\* C2: Strip::parse, relative branch: whenever the 16-bit value at
\* bytes[4..6] is 0, the strip has y1 = prev_y2 and y2 = prev_y2 + the 16-bit
\* value at bytes[8..10]; and in either branch x1 and x2 are the 16-bit
\* values at bytes[6..8] and bytes[10..12].
C2_RelativeBranch ==
    StripDone =>
        /\ result.kind = "ok"
        /\ result.val.x1 = BE16(data, 6)
        /\ result.val.x2 = BE16(data, 10)
        /\ BE16(data, 4) = 0 =>
              /\ result.val.y1 = prev_y2
              /\ result.val.y2 = prev_y2 + BE16(data, 8)

C2_Witness ==
    /\ StripDone /\ BE16(data, 4) = 0 /\ BE16(data, 8) = 30 /\ prev_y2 = 50
    /\ result.kind = "ok" /\ result.val.y1 = 50 /\ result.val.y2 = 80

\* C3: Frame::parse walks the strips in on-disk order: at every point of the
\* loop the cursor is the sum of the declared sizes of the strips parsed so
\* far and the carry is the y2 of the last one (0 before the first); strip k
\* is the parse of the slice of its declared size at 12 + that sum, with the
\* y2 of strip k-1 as prev_y2; a frame returned holds strip_count strips.
C3_StripsChained ==
    op = "frame" =>
        /\ Len(strips) = i
        /\ \A k \in 1..Len(strips) :
              LET start == 12 + DeclaredOffset(data, k - 1)
                  size == BE16(data, start + 2)
                  carried == IF k = 1 THEN 0 ELSE strips[k - 1].y2
              IN  /\ strips[k].header \o strips[k].data
                         = Slice(data, start, start + size)
                  /\ Ok(strips[k])
                         = StripParse(Slice(data, start, start + size), carried)
        /\ pc = "call" =>
              /\ current_offset = DeclaredOffset(data, i)
              /\ prev_y2 = IF i = 0 THEN 0 ELSE strips[i].y2
        /\ (pc = "done" /\ result.kind = "ok") =>
              /\ result.val.strips = strips
              /\ Len(result.val.strips) = BE16(data, 8)

C3_Witness ==
    /\ op = "frame" /\ pc = "done" /\ result.kind = "ok"
    /\ Len(result.val.strips) = 2
    /\ BE16(data, 12 + 2) = 13
    /\ result.val.strips[1].y2 = 80
    /\ result.val.strips[2].y1 = 80
    /\ result.val.strips[2].y2 = 110

\* C4: in Frame::parse a strip whose declared size is inconsistent with the
\* bytes that remain yields a recoverable MalformedStripError that names the
\* offending strip index.
C4_MalformedStripIsRecoverable ==
    (op = "frame" /\ pc = "done" /\ FirstMalformedStrip(data, 0, 0) # -1) =>
        /\ result.kind = "MalformedStripError"
        /\ result.index = FirstMalformedStrip(data, 0, 0)

\* C5: a frame returned by Frame::parse has keyframe = TRUE iff one of its
\* strips has id 0x10, which is iff one of the strip id fields on disk is
\* 0x10; a frame of no strips is not a keyframe.
C5_KeyframeIffAnyStrip ==
    (op = "frame" /\ pc = "done" /\ result.kind = "ok") =>
        /\ result.val.keyframe
              <=> \E k \in 1..Len(result.val.strips) :
                      result.val.strips[k].id = 16
        /\ result.val.keyframe
              <=> \E k \in 0..(BE16(data, 8) - 1) :
                      BE16(data, 12 + DeclaredOffset(data, k)) = 16
        /\ BE16(data, 8) = 0 => result.val.keyframe = FALSE

C5_Witness ==
    /\ op = "frame" /\ pc = "done" /\ result.kind = "ok"
    /\ Len(result.val.strips) = 2
    /\ result.val.strips[1].id = 17
    /\ result.val.strips[2].id = 16
    /\ result.val.keyframe = TRUE

\* A STAB chunk of E >= 1 entries followed by exactly E-1 sample records.
StabWellFormed(d) ==
    /\ Len(d) >= 16
    /\ Slice(d, 0, 4) = STABTag
    /\ BE32(d, 12) >= 1
    /\ Len(d) = 16 * BE32(d, 12)

\* C6: STAB::parse of a chunk of E >= 1 entries followed by E-1 records
\* returns E-1 samples, the k-th (from 0) with the offset and the length of
\* the record at byte 16*(k+1): the slot at bytes 0..16 is no sample.
C6_StabRoundTrip ==
    (op = "stab" /\ pc = "done" /\ StabWellFormed(data)) =>
        /\ result.kind = "ok"
        /\ Len(result.val.sample_table) = BE32(data, 12) - 1
        /\ \A k \in 0..(BE32(data, 12) - 2) :
              /\ result.val.sample_table[k + 1].offset = BE32(data, 16 * (k + 1))
              /\ result.val.sample_table[k + 1].length
                     = BE32(data, (16 * (k + 1)) + 4)

C6_Witness ==
    /\ op = "stab" /\ pc = "done" /\ StabWellFormed(data)
    /\ BE32(data, 12) = 3
    /\ result.kind = "ok"
    /\ result.val.sample_table[1].offset = 258
    /\ result.val.sample_table[2].offset = 16777219
    /\ result.val.sample_table[2].length = 7

\* A container with signature FILM, the given declared length, all of it
\* supplied, a text version tag, an FDSC with fourcc cvid and audio
\* compression code 0, and a STAB of 3 entries.
FilmContainer(d, length) ==
    /\ Len(d) >= 64
    /\ Slice(d, 0, 4) = FILM
    /\ BE32(d, 4) = length
    /\ Len(d) >= length
    /\ Utf8Valid(Slice(d, 8, 12))
    /\ Slice(d, 16, 20) = FDSCTag
    /\ Slice(d, 24, 28) = cvid
    /\ At(d, 39) = 0
    /\ Slice(d, 48, 52) = STABTag
    /\ BE32(d, 60) = 3

FilmParsedAsCinepakPcm ==
    /\ result.kind = "ok"
    /\ human_readable_fourcc(result.val.fdsc) = "Cinepak"
    /\ audio_codec(result.val.fdsc) = "pcm"
    /\ Len(result.val.stab.sample_table) = 2

\* C7, as stated: FILMHeader::parse of such a container of declared length
\* 64 succeeds, with "Cinepak", "pcm" and 2 samples.
C7_Length64Parses ==
    (op = "film" /\ pc = "done" /\ FilmContainer(data, 64)) =>
        FilmParsedAsCinepakPcm

\* C7, amended: FILMHeader::parse of such a container of declared length 96
\* (48 + the 16-byte STAB header + two 16-byte records) succeeds, with
\* "Cinepak", "pcm" and 2 samples.
C7_Length96Parses ==
    (op = "film" /\ pc = "done" /\ FilmContainer(data, 96)) =>
        FilmParsedAsCinepakPcm

C7_Witness ==
    /\ op = "film" /\ pc = "done" /\ FilmContainer(data, 96)
    /\ FilmParsedAsCinepakPcm
    /\ result.val.length = 96
    /\ result.val.stab.sample_table[2].offset = 258

\* C8: FILMHeader::parse of an input whose first four bytes are not "FILM"
\* returns the format-mismatch error, even when only 4 bytes are supplied.
C8_NotFilmIsErr ==
    (op = "film" /\ pc = "done" /\ Len(data) >= 4 /\ Slice(data, 0, 4) # FILM) =>
        result.kind = "err"

\* C9: on an input of at least 4 bytes FILMHeader::is_film_file returns
\* whether the first four bytes are exactly "FILM", and returns false rather
\* than failing for every other prefix.
C9_IsFilmFileIffFILM ==
    (op = "is_film_file" /\ pc = "done" /\ Len(data) >= 4) =>
        /\ result.kind = "ok"
        /\ result.val <=> Slice(data, 0, 4) = FILM

\* C10: for a sample parsed from a 16-byte record, is_audio is whether bytes
\* 8..12 are all 0xFF, is_video is its negation, is_keyframe is absent iff
\* the sample is audio, and for a video sample it is Some(true) iff bit 31
\* of bytes 8..12 read big-endian is clear (the first of them is below 128).
C10_SampleClassification ==
    (op = "sample" /\ pc = "done") =>
        /\ result.kind = "ok"
        /\ result.val.is_audio <=> Slice(data, 8, 12) = <<255, 255, 255, 255>>
        /\ result.val.is_video <=> ~result.val.is_audio
        /\ result.val.is_keyframe.some <=> ~result.val.is_audio
        /\ result.val.is_audio => result.val.is_keyframe = None
        /\ result.val.is_video =>
              result.val.is_keyframe = Some(At(data, 8) < 128)

C10_Witness ==
    /\ op = "sample" /\ pc = "done" /\ result.kind = "ok"
    /\ Slice(data, 8, 12) = <<128, 0, 0, 0>>
    /\ result.val.is_video
    /\ result.val.is_keyframe = Some(FALSE)

====
